---- MODULE Spec2Model ----
(***************************************************************************)
(* Copy-on-write snapshot cells of idl_rust: LinCowCell (lincowcell.rs),   *)
(* CowCell (cowcell.rs) and EbrCell (ebrcell.rs).                          *)
(*                                                                         *)
(* One cell is modelled at a time (the variable cell says which).  The     *)
(* read transactions and the write transactions that exist are kept as     *)
(* bags of records: transactions carry no name, and each may live in its   *)
(* own thread, so any interleaving of their steps is a run.  Generations   *)
(* are numbered in creation order, 1 being the value given to new().       *)
(***************************************************************************)
EXTENDS Integers, FiniteSets, Sequences, Bags, TLC

\* Bounds of the model.
NumReaders == 3
NumWriters == 2
MaxTxn == 2
MaxVal == 1
\* The value at which the threads of test_multithread_create stop (500 in
\* the tests).
Limit == 1
\* The count of destroyed values at which the threads of test_gc_operation
\* stop (50 in the tests).
GcTarget == 2
\* The ids that the ID lists of lib.rs are made of: the first NumIds of
\* IdPool (ids in three 64-id ranges).
NumIds == 5

\* The generations a run can create: the initial one and one per commit,
\* of which there are at most MaxTxn, and Limit + NumWriters in the runs of
\* test_multithread_create.
MaxGen ==
    IF Limit + NumWriters > MaxTxn THEN Limit + NumWriters + 1 ELSE MaxTxn + 1
Gens == 1..MaxGen
Values == 0..MaxVal

\* Option::None for a generation link.
None == 0
\* What is left of a value after its destructor ran.
NoVal == -1

ArcCells == {"LinCowCell", "CowCell"}
Cells == ArcCells \cup {"EbrCell"}

VARIABLES
    cell,        \* which of the three cell types this run is about
    cellDropped, \* the cell itself has been dropped
    write,       \* the `write` Mutex<()> is locked
    activeLock,  \* the `active` Mutex of LinCowCell / CowCell is locked
    active,      \* content of `active`: [data |-> generation, next |-> link]
    alloc,       \* per generation: "unborn", "live" or "freed"
    value,       \* per generation: the T it stores
    strong,      \* per generation: Arc strong count (LinCowCell / CowCell)
    garbage,     \* EbrCell, per generation: destructions deferred and not run
    rd,          \* bag of read transactions: pc, generation held, value seen
                 \* at begin, deferred destructions its epoch guard holds back
    wr,          \* bag of write transactions: pc, working copy, commit locals
    txns,        \* number of begin_write_txn calls made so far
    GC_COUNT,    \* the tests' counter of destructor runs of T
    scen,        \* position in the script of test_gc_operation_linear
    poisoned,    \* the mutexes ("write", "active") that are poisoned
    idl,         \* the ID lists of lib.rs: two operands, the operation
                 \* applied to them and its results
    hist         \* history: the value passed to the last commit that has
                 \* returned, the values published so far, the number of
                 \* commit calls, the newest generation handed to a reader

\* The variables of the cells, and all variables.
cellVars == <<cell, cellDropped, write, activeLock, active, alloc, value,
              strong, garbage, rd, wr, txns, GC_COUNT, scen, poisoned, hist>>
vars == <<cellVars, idl>>

----------------------------------------------------------------------------
\* The script of test_gc_operation_linear, as the operations that complete
\* and the generation each is about: read A is the one on generation 1,
\* B the one on generation 2, C the one on generation 3.
Script == << [op |-> "open", g |-> 1], [op |-> "commit", g |-> 2],
             [op |-> "open", g |-> 2], [op |-> "commit", g |-> 3],
             [op |-> "open", g |-> 3], [op |-> "close", g |-> 2],
             [op |-> "close", g |-> 3], [op |-> "close", g |-> 1] >>
Off == Len(Script) + 1

\* The run follows the script as long as each completed operation is the
\* script's next one; any other operation leaves the script for good.
ScenStep(e) ==
    IF scen < Len(Script) /\ Script[scen + 1] = e THEN scen + 1 ELSE Off

----------------------------------------------------------------------------
\* Bags of transactions.
Put(b, e) == b (+) SetToBag({e})
Take(b, e) == b (-) SetToBag({e})
Has(b, e) == CopiesIn(e, b) > 0

RECURSIVE Copies(_, _)
Copies(b, S) ==
    IF S = {} THEN 0
    ELSE LET e == CHOOSE x \in S : TRUE IN b[e] + Copies(b, S \ {e})

\* The bag b of read transactions, with generation g added to what each
\* one's guard holds back (a thread that has finished holds no guard).
HoldBack(b, g) ==
    LET F(e) == IF e.pc = "done" THEN e ELSE [e EXCEPT !.blocks = @ \cup {g}] IN
    [x \in {F(e) : e \in BagToSet(b)} |->
        Copies(b, {e \in BagToSet(b) : F(e) = x})]

----------------------------------------------------------------------------
\* The ID lists of lib.rs.  An IDLSimple is the sequence of its ids (its
\* Vec<u64>); an IDLBitRange is the sequence of its IDLRange records (its
\* Vec<IDLRange>), the u64 mask of a range being kept as the set of the
\* positions of its bits that are 1.

IdPool == <<1, 64, 2, 130, 66, 200, 3, 129>>
Ids == {IdPool[i] : i \in 1..NumIds}
\* The bit positions of a u64.
Bits == 0..63

\* The smallest element of a non-empty set of numbers.
Min(S) == CHOOSE x \in S : \A y \in S : x <= y

\* vec![..] of the ids of S in strictly ascending order.
RECURSIVE Ascending(_)
Ascending(S) ==
    IF S = {} THEN << >> ELSE <<Min(S)>> \o Ascending(S \ {Min(S)})

\* IDLSimple::push_id
IDLSimple_push_id(list, id) == Append(list, id)

\* IDLSimple::from_iter: `for i in iter { list.push(i) }`, from position k.
RECURSIVE IDLSimple_from_iter_loop(_, _, _)
IDLSimple_from_iter_loop(iter, k, list) ==
    IF k > Len(iter) THEN list
    ELSE IDLSimple_from_iter_loop(iter, k + 1, IDLSimple_push_id(list, iter[k]))

IDLSimple_from_iter(iter) == IDLSimple_from_iter_loop(iter, 1, << >>)

\* IDLSimple::bstbitand: binary_search finds the candidate in the (sorted)
\* list or does not.
IDLSimple_bstbitand(list, candidate) ==
    IF \E k \in 1..Len(list) : list[k] = candidate
    THEN <<candidate>> ELSE << >>

\* BitAnd for IDLSimple, the merge loop: i and j are the positions of lnext
\* and rnext (past the end: None).
RECURSIVE IDLSimple_bitand_loop(_, _, _, _, _)
IDLSimple_bitand_loop(lhs, rhs, i, j, result) ==
    IF i <= Len(lhs) /\ j <= Len(rhs)
    THEN IF lhs[i] = rhs[j]
         THEN IDLSimple_bitand_loop(lhs, rhs, i + 1, j + 1,
                                    IDLSimple_push_id(result, lhs[i]))
         ELSE IF lhs[i] < rhs[j]
         THEN IDLSimple_bitand_loop(lhs, rhs, i + 1, j, result)
         ELSE IDLSimple_bitand_loop(lhs, rhs, i, j + 1, result)
    ELSE result

\* BitAnd for IDLSimple
IDLSimple_bitand(self, other) ==
    IF Len(self) = 1 THEN IDLSimple_bstbitand(other, self[1])
    ELSE IF Len(other) = 1 THEN IDLSimple_bstbitand(self, other[1])
    ELSE IDLSimple_bitand_loop(self, other, 1, 1, << >>)

\* Mutant: a merge that pushes an id present in both lists twice.
RECURSIVE IDLSimple_bitor_loop_dup(_, _, _, _, _)
IDLSimple_bitor_loop_dup(lhs, rhs, i, j, result) ==
    IF i <= Len(lhs) /\ j <= Len(rhs)
    THEN IF lhs[i] <= rhs[j]
         THEN IDLSimple_bitor_loop_dup(lhs, rhs, i + 1, j,
                                       IDLSimple_push_id(result, lhs[i]))
         ELSE IDLSimple_bitor_loop_dup(lhs, rhs, i, j + 1,
                                       IDLSimple_push_id(result, rhs[j]))
    ELSE result \o SubSeq(lhs, i, Len(lhs)) \o SubSeq(rhs, j, Len(rhs))

\* BitOr for IDLSimple: the merge loop, then the two loops that push what
\* is left of lhs and of rhs.
RECURSIVE IDLSimple_bitor_loop(_, _, _, _, _)
IDLSimple_bitor_loop(lhs, rhs, i, j, result) ==
    IF i <= Len(lhs) /\ j <= Len(rhs)
    THEN IF lhs[i] = rhs[j]
         THEN IDLSimple_bitor_loop(lhs, rhs, i + 1, j + 1,
                                   IDLSimple_push_id(result, lhs[i]))
         ELSE IF lhs[i] < rhs[j]
         THEN IDLSimple_bitor_loop(lhs, rhs, i + 1, j,
                                   IDLSimple_push_id(result, lhs[i]))
         ELSE IDLSimple_bitor_loop(lhs, rhs, i, j + 1,
                                   IDLSimple_push_id(result, rhs[j]))
    ELSE result \o SubSeq(lhs, i, Len(lhs)) \o SubSeq(rhs, j, Len(rhs))

\* BitOr for IDLSimple
IDLSimple_bitor(lhs, rhs) == IDLSimple_bitor_loop(lhs, rhs, 1, 1, << >>)

\* AndNot for IDLSimple: the merge loop, then the loop that pushes what is
\* left of lhs.
RECURSIVE IDLSimple_andnot_loop(_, _, _, _, _)
IDLSimple_andnot_loop(lhs, rhs, i, j, result) ==
    IF i <= Len(lhs) /\ j <= Len(rhs)
    THEN IF lhs[i] < rhs[j]
         THEN IDLSimple_andnot_loop(lhs, rhs, i + 1, j,
                                    IDLSimple_push_id(result, lhs[i]))
         ELSE IF lhs[i] = rhs[j]
         THEN IDLSimple_andnot_loop(lhs, rhs, i + 1, j + 1, result)
         ELSE IDLSimple_andnot_loop(lhs, rhs, i, j + 1, result)
    ELSE result \o SubSeq(lhs, i, Len(lhs))

\* AndNot for IDLSimple
IDLSimple_andnot(lhs, rhs) == IDLSimple_andnot_loop(lhs, rhs, 1, 1, << >>)

\* IDLRange::new
IDLRange_new(range, mask) == [range |-> range, mask |-> mask]

\* IDLRange::push_id: self.mask ^= 1 << value
IDLRange_push_id(self, bit) ==
    [self EXCEPT !.mask = (@ \ {bit}) \cup ({bit} \ @)]

\* IDLBitRange::push_id
IDLBitRange_push_id(list, id) ==
    LET bvalue == id % 64
        range == id - bvalue
    IN  IF Len(list) > 0 /\ list[Len(list)].range = range
        THEN [list EXCEPT ![Len(list)] = IDLRange_push_id(@, bvalue)]
        ELSE Append(list, IDLRange_new(range, {bvalue}))

\* IDLBitRange::from_iter: `for i in iter { new.push_id(i) }`, from
\* position k.
RECURSIVE IDLBitRange_from_iter_loop(_, _, _)
IDLBitRange_from_iter_loop(iter, k, list) ==
    IF k > Len(iter) THEN list
    ELSE IDLBitRange_from_iter_loop(iter, k + 1,
                                    IDLBitRange_push_id(list, iter[k]))

IDLBitRange_from_iter(iter) == IDLBitRange_from_iter_loop(iter, 1, << >>)

\* Mutant: a search that returns the candidate's range as it is when the
\* list has that range, without masking.
IDLBitRange_bstbitand_nomask(list, candidate) ==
    IF \E k \in 1..Len(list) : list[k].range = candidate.range
    THEN <<candidate>> ELSE << >>

\* IDLBitRange::bstbitand: binary_search compares ranges only (Ord for
\* IDLRange) and finds the candidate's range in the list or does not.
IDLBitRange_bstbitand(list, candidate) ==
    LET found == {k \in 1..Len(list) : list[k].range = candidate.range} IN
        IF found = {} THEN << >>
        ELSE LET existing == list[CHOOSE k \in found : TRUE]
                 mask == existing.mask \cap candidate.mask
             IN  IF mask # {}
                 THEN <<IDLRange_new(candidate.range, mask)>>
                 ELSE << >>

\* BitAnd for IDLBitRange, the merge loop.
RECURSIVE IDLBitRange_bitand_loop(_, _, _, _, _)
IDLBitRange_bitand_loop(lhs, rhs, i, j, result) ==
    IF i <= Len(lhs) /\ j <= Len(rhs)
    THEN LET l == lhs[i]
             r == rhs[j]
             mask == l.mask \cap r.mask
         IN  IF l.range = r.range
             THEN IDLBitRange_bitand_loop(lhs, rhs, i + 1, j + 1,
                      IF mask # {}
                      THEN Append(result, IDLRange_new(l.range, mask))
                      ELSE result)
             ELSE IF l.range < r.range
             THEN IDLBitRange_bitand_loop(lhs, rhs, i + 1, j, result)
             ELSE IDLBitRange_bitand_loop(lhs, rhs, i, j + 1, result)
    ELSE result

\* BitAnd for IDLBitRange
IDLBitRange_bitand(self, rhs) ==
    IF Len(self) = 1 THEN IDLBitRange_bstbitand(rhs, self[1])
    ELSE IF Len(rhs) = 1 THEN IDLBitRange_bstbitand(self, rhs[1])
    ELSE IDLBitRange_bitand_loop(self, rhs, 1, 1, << >>)

\* BitOr for IDLBitRange: the merge loop, then the two loops that push what
\* is left of self and of rhs.
RECURSIVE IDLBitRange_bitor_loop(_, _, _, _, _)
IDLBitRange_bitor_loop(lhs, rhs, i, j, result) ==
    IF i <= Len(lhs) /\ j <= Len(rhs)
    THEN LET l == lhs[i]
             r == rhs[j]
         IN  IF l.range = r.range
             THEN IDLBitRange_bitor_loop(lhs, rhs, i + 1, j + 1,
                      Append(result, IDLRange_new(l.range, l.mask \cup r.mask)))
             ELSE IF l.range < r.range
             THEN IDLBitRange_bitor_loop(lhs, rhs, i + 1, j,
                      Append(result, IDLRange_new(l.range, l.mask)))
             ELSE IDLBitRange_bitor_loop(lhs, rhs, i, j + 1,
                      Append(result, IDLRange_new(r.range, r.mask)))
    ELSE result \o SubSeq(lhs, i, Len(lhs)) \o SubSeq(rhs, j, Len(rhs))

\* BitOr for IDLBitRange
IDLBitRange_bitor(self, rhs) == IDLBitRange_bitor_loop(self, rhs, 1, 1, << >>)

\* AndNot for IDLBitRange: the merge loop (which pushes nothing when
\* l.range < r.range), then the loop that pushes what is left of self.
RECURSIVE IDLBitRange_andnot_loop(_, _, _, _, _)
IDLBitRange_andnot_loop(lhs, rhs, i, j, result) ==
    IF i <= Len(lhs) /\ j <= Len(rhs)
    THEN LET l == lhs[i]
             r == rhs[j]
             mask == l.mask \cap (Bits \ r.mask)
         IN  IF l.range = r.range
             THEN IDLBitRange_andnot_loop(lhs, rhs, i + 1, j + 1,
                      IF mask # {}
                      THEN Append(result, IDLRange_new(l.range, mask))
                      ELSE result)
             ELSE IF l.range < r.range
             THEN IDLBitRange_andnot_loop(lhs, rhs, i + 1, j, result)
             ELSE IDLBitRange_andnot_loop(lhs, rhs, i, j + 1, result)
    ELSE result \o SubSeq(lhs, i, Len(lhs))

\* AndNot for IDLBitRange
IDLBitRange_andnot(self, rhs) == IDLBitRange_andnot_loop(self, rhs, 1, 1, << >>)

\* No ID list is in use (the runs of the cells).
IdlOff == [a |-> << >>, b |-> << >>, op |-> "off", simple |-> << >>,
           range |-> << >>]

----------------------------------------------------------------------------
\* The heap: the values, their Arc counts and the destructor counter.
Heap == [alloc |-> alloc, value |-> value, strong |-> strong, gc |-> GC_COUNT]

SetHeap(h) ==
    /\ alloc' = h.alloc
    /\ value' = h.value
    /\ strong' = h.strong
    /\ GC_COUNT' = h.gc

\* Number of generations created so far.
NGen == Cardinality({g \in Gens : alloc[g] # "unborn"})

\* drop(T): the destructor of the value of generation g runs.
DropValue(h, g) ==
    [h EXCEPT !.alloc[g] = "freed", !.value[g] = NoVal, !.gc = @ + 1]

\* Arc::new(v): a fresh generation g holding v, strong count 1.
ArcNew(h, g, v) ==
    [h EXCEPT !.alloc[g] = "live", !.value[g] = v, !.strong[g] = 1]

\* Arc::clone
ArcClone(h, g) == [h EXCEPT !.strong[g] = @ + 1]

\* drop(Arc<T>): the value is destroyed when the last handle goes.
ArcDrop(h, g) ==
    IF h.strong[g] = 1
    THEN DropValue([h EXCEPT !.strong[g] = 0], g)
    ELSE [h EXCEPT !.strong[g] = @ - 1]

\* A read transaction that has just been asked for, at program point pc.
NewRd(pc) == [pc |-> pc, data |-> None, seen |-> NoVal, blocks |-> {}]
\* A write transaction that has just been asked for.
NewWr == [pc |-> "want", work |-> NoVal, prev |-> None, new |-> None]

\* Deref for a read transaction: the value behind its pointer.
Deref(t) == value[t.data]

\* The newer of two generations.
Newest(g, k) == IF k > g THEN k ELSE g

CellInit ==
    /\ cell \in Cells
    /\ cellDropped = FALSE
    /\ write = FALSE
    /\ activeLock = FALSE
    /\ active = [data |-> 1, next |-> None]
    /\ alloc = [g \in Gens |-> IF g = 1 THEN "live" ELSE "unborn"]
    /\ value \in {[g \in Gens |-> IF g = 1 THEN v ELSE NoVal] : v \in Values}
    /\ strong = [g \in Gens |-> IF g = 1 /\ cell \in ArcCells THEN 1 ELSE 0]
    /\ garbage = [g \in Gens |-> 0]
    /\ rd = EmptyBag
    /\ wr = EmptyBag
    /\ txns = 0
    /\ GC_COUNT = 0
    /\ scen = 0
    /\ poisoned = {}
    /\ hist = [committed |-> value[1], published |-> {value[1]},
               commits |-> 0, read |-> None]

Init ==
    /\ CellInit
    /\ idl = IdlOff

----------------------------------------------------------------------------
\* Read transactions of LinCowCell and CowCell.

\* Mutant: a begin_read_txn that goes through the `write` lock as well.
BeginReadLockAfterWrite ==
    /\ cell \in ArcCells /\ ~cellDropped
    /\ BagCardinality(rd) < NumReaders
    /\ ~write
    /\ ~activeLock /\ "active" \notin poisoned
    /\ activeLock' = TRUE
    /\ rd' = Put(rd, NewRd("locked"))
    /\ UNCHANGED <<hist, cell, cellDropped, write, active, alloc, value,
                   strong, garbage, wr, txns, GC_COUNT, scen, poisoned, idl>>

\* begin_read_txn: self.active.lock().unwrap().  (On a poisoned mutex
\* unwrap panics: the call yields no transaction and changes nothing.)
BeginReadLock ==
    /\ cell \in ArcCells /\ ~cellDropped
    /\ BagCardinality(rd) < NumReaders
    /\ ~activeLock /\ "active" \notin poisoned
    /\ activeLock' = TRUE
    /\ rd' = Put(rd, NewRd("locked"))
    /\ UNCHANGED <<hist, cell, cellDropped, write, active, alloc, value,
                   strong, garbage, wr, txns, GC_COUNT, scen, poisoned, idl>>

\* Mutant: a read transaction that takes the pointer without counting itself
\* in the Arc.
BeginReadNoClone(t) ==
    /\ cell \in ArcCells
    /\ Has(rd, t) /\ t.pc = "locked"
    /\ rd' = Put(Take(rd, t), [t EXCEPT !.pc = "open", !.data = active.data,
                                        !.seen = value[active.data]])
    /\ activeLock' = FALSE
    /\ scen' = ScenStep([op |-> "open", g |-> active.data])
    /\ hist' = [hist EXCEPT !.read = Newest(@, active.data)]
    /\ UNCHANGED <<cell, cellDropped, write, active, garbage, wr, txns, alloc,
                   value, strong, GC_COUNT, poisoned, idl>>

\* Mutant: a read transaction that keeps the guard of `active` for as long
\* as it is open.
BeginReadKeepLock(t) ==
    /\ cell \in ArcCells
    /\ Has(rd, t) /\ t.pc = "locked"
    /\ SetHeap(ArcClone(Heap, active.data))
    /\ rd' = Put(Take(rd, t), [t EXCEPT !.pc = "open", !.data = active.data,
                                        !.seen = value[active.data]])
    /\ activeLock' = TRUE
    /\ scen' = ScenStep([op |-> "open", g |-> active.data])
    /\ hist' = [hist EXCEPT !.read = Newest(@, active.data)]
    /\ UNCHANGED <<cell, cellDropped, write, active, garbage, wr, txns,
                   poisoned, idl>>

\* begin_read_txn: clone the Arc of the current data, release the lock.
BeginReadClone(t) ==
    /\ cell \in ArcCells
    /\ Has(rd, t) /\ t.pc = "locked"
    /\ SetHeap(ArcClone(Heap, active.data))
    /\ rd' = Put(Take(rd, t), [t EXCEPT !.pc = "open", !.data = active.data,
                                        !.seen = value[active.data]])
    /\ activeLock' = FALSE
    /\ scen' = ScenStep([op |-> "open", g |-> active.data])
    /\ hist' = [hist EXCEPT !.read = Newest(@, active.data)]
    /\ UNCHANGED <<cell, cellDropped, write, active, garbage, wr, txns,
                   poisoned, idl>>

\* drop(LinCowCellReadTxn) / drop(CowCellReadTxn): the Arc is dropped.
CloseReadLeaving(t, left) ==
    /\ cell \in ArcCells
    /\ Has(rd, t) /\ t.pc = "open"
    /\ SetHeap(ArcDrop(Heap, t.data))
    /\ rd' = Take(rd, t) (+) left
    /\ scen' = ScenStep([op |-> "close", g |-> t.data])
    /\ UNCHANGED <<hist, cell, cellDropped, write, activeLock, active,
                   garbage, wr, txns, poisoned, idl>>

\* The read transaction is dropped and its thread goes on to other things.
CloseRead(t) == CloseReadLeaving(t, EmptyBag)

----------------------------------------------------------------------------
\* Write transactions: the parts the three cells share.

\* A thread calls begin_write_txn.
BeginWriteStart ==
    /\ ~cellDropped
    /\ BagCardinality(wr) < NumWriters
    /\ txns' = txns + 1
    /\ wr' = Put(wr, NewWr)
    /\ UNCHANGED <<hist, cell, cellDropped, write, activeLock, active, alloc,
                   value, strong, garbage, rd, GC_COUNT, scen, poisoned, idl>>

\* A thread calls begin_write_txn, in a run of at most MaxTxn calls.
BeginWriteCall ==
    /\ txns < MaxTxn
    /\ BeginWriteStart

\* Mutant: begin_write_txn that returns without waiting for `write`.
BeginWriteLockNoWait(t) ==
    /\ Has(wr, t) /\ t.pc = "want"
    /\ "write" \notin poisoned
    /\ write' = TRUE
    /\ wr' = Put(Take(wr, t), [t EXCEPT !.pc = "wlocked"])
    /\ UNCHANGED <<hist, cell, cellDropped, activeLock, active, alloc, value,
                   strong, garbage, rd, txns, GC_COUNT, scen, poisoned, idl>>

\* Mutant: a begin_write_txn that takes the two locks in the other order:
\* `active` first, then `write` while it holds `active`.
BeginWriteLockActiveFirst(t) ==
    /\ Has(wr, t)
    /\ \/ /\ t.pc = "want"
          /\ ~activeLock /\ "active" \notin poisoned
          /\ activeLock' = TRUE
          /\ write' = write
          /\ wr' = Put(Take(wr, t), [t EXCEPT !.pc = "awant"])
       \/ /\ t.pc = "awant"
          /\ ~write /\ "write" \notin poisoned
          /\ write' = TRUE
          /\ activeLock' = activeLock
          /\ wr' = Put(Take(wr, t), [t EXCEPT !.pc = "wactive"])
    /\ UNCHANGED <<hist, cell, cellDropped, active, alloc, value,
                   strong, garbage, rd, txns, GC_COUNT, scen, poisoned, idl>>

\* begin_write_txn: self.write.lock().unwrap() returns once the mutex is
\* free, if it is not poisoned.
BeginWriteLock(t) ==
    /\ Has(wr, t) /\ t.pc = "want"
    /\ ~write /\ "write" \notin poisoned
    /\ write' = TRUE
    /\ wr' = Put(Take(wr, t), [t EXCEPT !.pc = "wlocked"])
    /\ UNCHANGED <<hist, cell, cellDropped, activeLock, active, alloc, value,
                   strong, garbage, rd, txns, GC_COUNT, scen, poisoned, idl>>

\* Mutant: get_mut that hands out the value the cell shares with readers.
GetMutShared(t, v) ==
    /\ Has(wr, t) /\ t.pc = "open"
    /\ wr' = Put(Take(wr, t), [t EXCEPT !.work = v])
    /\ value' = [value EXCEPT ![active.data] = v]
    /\ UNCHANGED <<hist, cell, cellDropped, write, activeLock, active, alloc,
                   strong, garbage, rd, txns, GC_COUNT, scen, poisoned, idl>>

\* get_mut, and an assignment through the reference it returns.
GetMut(t, v) ==
    /\ Has(wr, t) /\ t.pc = "open"
    /\ wr' = Put(Take(wr, t), [t EXCEPT !.work = v])
    /\ UNCHANGED <<hist, cell, cellDropped, write, activeLock, active, alloc,
                   value, strong, garbage, rd, txns, GC_COUNT, scen, poisoned,
                   idl>>

\* Mutant: a drop of the write transaction that writes the working copy
\* back into the current generation.
AbortWriteBack(t) ==
    /\ Has(wr, t) /\ t.pc = "open"
    /\ wr' = Take(wr, t)
    /\ GC_COUNT' = GC_COUNT + 1
    /\ value' = [value EXCEPT ![active.data] = t.work]
    /\ write' = FALSE
    /\ scen' = Off
    /\ UNCHANGED <<hist, cell, cellDropped, activeLock, active, alloc, strong,
                   garbage, rd, txns, poisoned, idl>>

\* The write transaction is dropped without commit: the working copy is
\* destroyed, then the MutexGuard releases `write`.
Abort(t) ==
    /\ Has(wr, t) /\ t.pc = "open"
    /\ wr' = Take(wr, t)
    /\ GC_COUNT' = GC_COUNT + 1
    /\ write' = FALSE
    /\ scen' = Off
    /\ UNCHANGED <<hist, cell, cellDropped, activeLock, active, alloc, value,
                   strong, garbage, rd, txns, poisoned, idl>>

----------------------------------------------------------------------------
\* Write transactions of LinCowCell and CowCell.

\* begin_write_txn: self.active.lock().unwrap()
BeginWriteActive(t) ==
    /\ cell \in ArcCells
    /\ Has(wr, t) /\ t.pc = "wlocked"
    /\ ~activeLock /\ "active" \notin poisoned
    /\ activeLock' = TRUE
    /\ wr' = Put(Take(wr, t), [t EXCEPT !.pc = "wactive"])
    /\ UNCHANGED <<hist, cell, cellDropped, write, active, alloc, value,
                   strong, garbage, rd, txns, GC_COUNT, scen, poisoned, idl>>

\* Mutant: a begin_write_txn that keeps the guard of `active` (stored in
\* the write transaction) instead of releasing it on return.
BeginWriteCloneKeepActive(t) ==
    /\ cell \in ArcCells
    /\ Has(wr, t) /\ t.pc = "wactive"
    /\ wr' = Put(Take(wr, t),
                 [t EXCEPT !.pc = "open", !.work = value[active.data]])
    /\ activeLock' = TRUE
    /\ UNCHANGED <<hist, cell, cellDropped, write, active, alloc, value,
                   strong, garbage, rd, txns, GC_COUNT, scen, poisoned, idl>>

\* begin_write_txn: deep-clone the current value into `work`; the `active`
\* guard is released when the function returns.
BeginWriteClone(t) ==
    /\ cell \in ArcCells
    /\ Has(wr, t) /\ t.pc = "wactive"
    /\ wr' = Put(Take(wr, t),
                 [t EXCEPT !.pc = "open", !.work = value[active.data]])
    /\ activeLock' = FALSE
    /\ UNCHANGED <<hist, cell, cellDropped, write, active, alloc, value,
                   strong, garbage, rd, txns, GC_COUNT, scen, poisoned, idl>>

\* Mutant: a commit that gives up the `write` guard as it starts, before
\* the new generation is stored.
CommitLockUnlocks(t) ==
    /\ cell \in ArcCells
    /\ Has(wr, t) /\ t.pc = "open"
    /\ ~activeLock /\ "active" \notin poisoned
    /\ activeLock' = TRUE
    /\ write' = FALSE
    /\ wr' = Put(Take(wr, t), [t EXCEPT !.pc = "clocked"])
    /\ hist' = [hist EXCEPT !.commits = @ + 1]
    /\ UNCHANGED <<cell, cellDropped, active, alloc, value, strong,
                   garbage, rd, txns, GC_COUNT, scen, poisoned, idl>>

\* commit: self.active.lock().unwrap()
CommitLock(t) ==
    /\ cell \in ArcCells
    /\ Has(wr, t) /\ t.pc = "open"
    /\ ~activeLock /\ "active" \notin poisoned
    /\ activeLock' = TRUE
    /\ wr' = Put(Take(wr, t), [t EXCEPT !.pc = "clocked"])
    /\ hist' = [hist EXCEPT !.commits = @ + 1]
    /\ UNCHANGED <<cell, cellDropped, write, active, alloc, value, strong,
                   garbage, rd, txns, GC_COUNT, scen, poisoned, idl>>

\* Mutant: a commit that publishes a copy of the current value instead of
\* the working copy.
LinCommitLinkOld(t) ==
    /\ cell = "LinCowCell"
    /\ Has(wr, t) /\ t.pc = "clocked"
    /\ LET n == NGen + 1 IN
        /\ SetHeap(ArcClone(ArcNew(Heap, n, value[active.data]), n))
        /\ active' = [active EXCEPT !.next = n]
        /\ wr' = Put(Take(wr, t), [t EXCEPT !.pc = "clinked", !.new = n])
    /\ UNCHANGED <<hist, cell, cellDropped, write, activeLock, garbage, rd,
                   txns, scen, poisoned, idl>>

\* LinCowCell::commit: new_inner = LinCowCellInner::new(newdata), then
\* rwguard.next = Some(new_inner.data.clone()).
LinCommitLink(t) ==
    /\ cell = "LinCowCell"
    /\ Has(wr, t) /\ t.pc = "clocked"
    /\ LET n == NGen + 1 IN
        /\ SetHeap(ArcClone(ArcNew(Heap, n, t.work), n))
        /\ active' = [active EXCEPT !.next = n]
        /\ wr' = Put(Take(wr, t), [t EXCEPT !.pc = "clinked", !.new = n])
    /\ UNCHANGED <<hist, cell, cellDropped, write, activeLock, garbage, rd,
                   txns, scen, poisoned, idl>>

\* LinCowCell::commit: *rwguard = new_inner.  The LinCowCellInner that was
\* stored in the mutex is dropped, field by field: its data Arc, then its
\* next Arc.  Then the `active` guard and the transaction's `write` guard go.
LinCommitSwapLeaving(t, left) ==
    /\ cell = "LinCowCell"
    /\ Has(wr, t) /\ t.pc = "clinked"
    /\ SetHeap(ArcDrop(ArcDrop(Heap, active.data), active.next))
    /\ active' = [data |-> t.new, next |-> None]
    /\ wr' = Take(wr, t) (+) left
    /\ activeLock' = FALSE
    /\ write' = FALSE
    /\ scen' = ScenStep([op |-> "commit", g |-> t.new])
    /\ hist' = [hist EXCEPT !.committed = t.work, !.published = @ \cup {t.work}]
    /\ UNCHANGED <<cell, cellDropped, garbage, rd, txns, poisoned, idl>>

\* Mutant: a commit that carries the link it has just set over to the inner
\* it stores.
LinCommitSwapCarriesLink(t) ==
    /\ cell = "LinCowCell"
    /\ Has(wr, t) /\ t.pc = "clinked"
    /\ SetHeap(ArcDrop(ArcDrop(Heap, active.data), active.next))
    /\ active' = [data |-> t.new, next |-> active.next]
    /\ wr' = Take(wr, t)
    /\ activeLock' = FALSE
    /\ write' = FALSE
    /\ scen' = ScenStep([op |-> "commit", g |-> t.new])
    /\ hist' = [hist EXCEPT !.committed = t.work, !.published = @ \cup {t.work}]
    /\ UNCHANGED <<cell, cellDropped, garbage, rd, txns, poisoned, idl>>

\* commit returns and its thread goes on to other things.
LinCommitSwap(t) == LinCommitSwapLeaving(t, EmptyBag)

\* CowCell::commit: new_inner = Arc::new(CowCellInner::new(newdata))
CowCommitNew(t) ==
    /\ cell = "CowCell"
    /\ Has(wr, t) /\ t.pc = "clocked"
    /\ LET n == NGen + 1 IN
        /\ SetHeap(ArcNew(Heap, n, t.work))
        /\ wr' = Put(Take(wr, t), [t EXCEPT !.pc = "clinked", !.new = n])
    /\ UNCHANGED <<hist, cell, cellDropped, write, activeLock, active,
                   garbage, rd, txns, scen, poisoned, idl>>

\* Mutant: a commit that writes the new data into the Arc that is stored,
\* instead of replacing it.
CowCommitInPlace(t) ==
    /\ cell = "CowCell"
    /\ Has(wr, t) /\ t.pc = "clinked"
    /\ SetHeap(ArcDrop([Heap EXCEPT !.value[active.data] = t.work], t.new))
    /\ active' = active
    /\ wr' = Take(wr, t)
    /\ activeLock' = FALSE
    /\ write' = FALSE
    /\ scen' = ScenStep([op |-> "commit", g |-> t.new])
    /\ hist' = [hist EXCEPT !.committed = t.work, !.published = @ \cup {t.work}]
    /\ UNCHANGED <<cell, cellDropped, garbage, rd, txns, poisoned, idl>>

\* Mutant: a commit that borrows the write transaction instead of consuming
\* it: the transaction is open again, with its lock, when commit returns.
CowCommitSwapKeeps(t) ==
    /\ cell = "CowCell"
    /\ Has(wr, t) /\ t.pc = "clinked"
    /\ SetHeap(ArcDrop(Heap, active.data))
    /\ active' = [data |-> t.new, next |-> None]
    /\ wr' = Put(Take(wr, t), [t EXCEPT !.pc = "open", !.new = None])
    /\ activeLock' = FALSE
    /\ write' = write
    /\ scen' = ScenStep([op |-> "commit", g |-> t.new])
    /\ hist' = [hist EXCEPT !.committed = t.work, !.published = @ \cup {t.work}]
    /\ UNCHANGED <<cell, cellDropped, garbage, rd, txns, poisoned, idl>>

\* Mutant: a commit that forgets the Arc it replaces instead of dropping it.
CowCommitSwapLeak(t) ==
    /\ cell = "CowCell"
    /\ Has(wr, t) /\ t.pc = "clinked"
    /\ SetHeap(Heap)
    /\ active' = [data |-> t.new, next |-> None]
    /\ wr' = Take(wr, t)
    /\ activeLock' = FALSE
    /\ write' = FALSE
    /\ scen' = ScenStep([op |-> "commit", g |-> t.new])
    /\ hist' = [hist EXCEPT !.committed = t.work, !.published = @ \cup {t.work}]
    /\ UNCHANGED <<cell, cellDropped, garbage, rd, txns, poisoned, idl>>

\* CowCell::commit: *rwguard = new_inner drops the Arc that was stored.
CowCommitSwapLeaving(t, left) ==
    /\ cell = "CowCell"
    /\ Has(wr, t) /\ t.pc = "clinked"
    /\ SetHeap(ArcDrop(Heap, active.data))
    /\ active' = [data |-> t.new, next |-> None]
    /\ wr' = Take(wr, t) (+) left
    /\ activeLock' = FALSE
    /\ write' = FALSE
    /\ scen' = ScenStep([op |-> "commit", g |-> t.new])
    /\ hist' = [hist EXCEPT !.committed = t.work, !.published = @ \cup {t.work}]
    /\ UNCHANGED <<cell, cellDropped, garbage, rd, txns, poisoned, idl>>

\* commit returns and its thread goes on to other things.
CowCommitSwap(t) == CowCommitSwapLeaving(t, EmptyBag)

\* The cell is dropped (no call on it is in progress, no write transaction
\* borrows it): the Arc stored in `active` is dropped.
ArcDropCell ==
    /\ cell \in ArcCells /\ ~cellDropped
    /\ wr = EmptyBag
    /\ \A t \in BagToSet(rd) : t.pc = "open"
    /\ cellDropped' = TRUE
    /\ SetHeap(ArcDrop(Heap, active.data))
    /\ scen' = Off
    /\ UNCHANGED <<hist, cell, write, activeLock, active, garbage, rd, wr,
                   txns, poisoned, idl>>

----------------------------------------------------------------------------
\* EbrCell.

\* Mutant: a destruction handed to the collector without an epoch guard
\* holding it back.
DeferUnpinned(g) ==
    /\ garbage' = [garbage EXCEPT ![g] = @ + 1]
    /\ rd' = rd

\* guard.defer(..) of the destruction of generation g: it waits for every
\* guard that is pinned now, so g is added to what each such guard holds
\* back.  (The guard that defers is unpinned as its function returns.)
Defer(g) ==
    /\ garbage' = [garbage EXCEPT ![g] = @ + 1]
    /\ rd' = HoldBack(rd, g)

\* begin_read_txn: epoch::pin()
EbrBeginReadPin ==
    /\ cell = "EbrCell" /\ ~cellDropped
    /\ BagCardinality(rd) < NumReaders
    /\ rd' = Put(rd, NewRd("pinned"))
    /\ UNCHANGED <<hist, cell, cellDropped, write, activeLock, active, alloc,
                   value, strong, garbage, wr, txns, GC_COUNT, scen, poisoned,
                   idl>>

\* Mutant: a load that may return a pointer that was stored in `active`
\* earlier (a stale copy) instead of the current one.
EbrBeginReadLoadStale(t) ==
    /\ cell = "EbrCell"
    /\ Has(rd, t) /\ t.pc = "pinned"
    /\ \E g \in {k \in Gens : k <= active.data /\ alloc[k] = "live"} :
        /\ rd' = Put(Take(rd, t), [t EXCEPT !.pc = "open", !.data = g,
                                            !.seen = value[g]])
        /\ scen' = ScenStep([op |-> "open", g |-> g])
        /\ hist' = [hist EXCEPT !.read = Newest(@, g)]
    /\ UNCHANGED <<cell, cellDropped, write, activeLock, active, alloc, value,
                   strong, garbage, wr, txns, GC_COUNT, poisoned, idl>>

\* begin_read_txn: self.active.load(Relaxed, &guard).as_raw().  The pointer
\* read is the one a commit swapped in (or the initial one); the read of the
\* value behind it depends on that pointer, and sees the value moved into
\* the Owned before the Release swap.
EbrBeginReadLoad(t) ==
    /\ cell = "EbrCell"
    /\ Has(rd, t) /\ t.pc = "pinned"
    /\ rd' = Put(Take(rd, t), [t EXCEPT !.pc = "open", !.data = active.data,
                                        !.seen = value[active.data]])
    /\ scen' = ScenStep([op |-> "open", g |-> active.data])
    /\ hist' = [hist EXCEPT !.read = Newest(@, active.data)]
    /\ UNCHANGED <<cell, cellDropped, write, activeLock, active, alloc, value,
                   strong, garbage, wr, txns, GC_COUNT, poisoned, idl>>

\* drop(EbrCellReadTxn): the guard is unpinned.
EbrCloseReadLeaving(t, left) ==
    /\ cell = "EbrCell"
    /\ Has(rd, t) /\ t.pc = "open"
    /\ rd' = Take(rd, t) (+) left
    /\ scen' = ScenStep([op |-> "close", g |-> t.data])
    /\ UNCHANGED <<hist, cell, cellDropped, write, activeLock, active, alloc,
                   value, strong, garbage, wr, txns, GC_COUNT, poisoned, idl>>

\* The read transaction is dropped and its thread goes on to other things.
EbrCloseRead(t) == EbrCloseReadLeaving(t, EmptyBag)

\* begin_write_txn after the lock: pin, load `active`, clone the value; the
\* guard is unpinned on return.  Nothing is deferred meanwhile: only commit
\* (which needs `write`) and Drop (which needs the cell unborrowed) defer.
EbrBeginWriteClone(t) ==
    /\ cell = "EbrCell"
    /\ Has(wr, t) /\ t.pc = "wlocked"
    /\ wr' = Put(Take(wr, t),
                 [t EXCEPT !.pc = "open", !.work = value[active.data]])
    /\ UNCHANGED <<hist, cell, cellDropped, write, activeLock, active, alloc,
                   value, strong, garbage, rd, txns, GC_COUNT, scen, poisoned,
                   idl>>

\* EbrCell::commit: epoch::pin(); prev_data = self.active.load(..)
EbrCommitLoad(t) ==
    /\ cell = "EbrCell"
    /\ Has(wr, t) /\ t.pc = "open"
    /\ wr' = Put(Take(wr, t), [t EXCEPT !.pc = "cloaded", !.prev = active.data])
    /\ hist' = [hist EXCEPT !.commits = @ + 1]
    /\ UNCHANGED <<cell, cellDropped, write, activeLock, active, alloc, value,
                   strong, garbage, rd, txns, GC_COUNT, scen, poisoned, idl>>

\* Mutant: a commit that swaps the new allocation in while it still holds
\* the contents of the previous generation, not yet the working copy.
EbrCommitCASStale(t) ==
    /\ cell = "EbrCell"
    /\ Has(wr, t) /\ t.pc = "cloaded"
    /\ LET n == NGen + 1
           h == [Heap EXCEPT !.alloc[n] = "live", !.value[n] = value[t.prev]]
       IN  /\ SetHeap(h)
           /\ active' = [active EXCEPT !.data = n]
           /\ hist' = [hist EXCEPT !.published = @ \cup {t.work}]
           /\ wr' = Put(Take(wr, t), [t EXCEPT !.pc = "cswapped", !.new = n])
    /\ UNCHANGED <<cell, cellDropped, write, activeLock, strong, garbage, rd,
                   txns, scen, poisoned, idl>>

\* EbrCell::commit: Owned::new(element), then
\* self.active.compare_and_set(prev_data, owned_data, ..).  On failure the
\* Owned comes back in the error and is dropped with it.
EbrCommitCAS(t) ==
    /\ cell = "EbrCell"
    /\ Has(wr, t) /\ t.pc = "cloaded"
    /\ LET n == NGen + 1
           h == [Heap EXCEPT !.alloc[n] = "live", !.value[n] = t.work]
       IN  /\ IF active.data = t.prev
              THEN /\ SetHeap(h)
                   /\ active' = [active EXCEPT !.data = n]
                   /\ hist' = [hist EXCEPT !.published = @ \cup {t.work}]
              ELSE /\ SetHeap(DropValue(h, n))
                   /\ active' = active
                   /\ hist' = hist
           /\ wr' = Put(Take(wr, t), [t EXCEPT !.pc = "cswapped", !.new = n])
    /\ UNCHANGED <<cell, cellDropped, write, activeLock, strong, garbage, rd,
                   txns, scen, poisoned, idl>>

\* Mutant: a commit that returns without releasing the `write` guard (the
\* transaction is forgotten instead of dropped).
EbrCommitDeferKeepLock(t) ==
    /\ cell = "EbrCell"
    /\ Has(wr, t) /\ t.pc = "cswapped"
    /\ Defer(t.prev)
    /\ wr' = Take(wr, t)
    /\ write' = write
    /\ scen' = ScenStep([op |-> "commit", g |-> t.new])
    /\ hist' = [hist EXCEPT !.committed = t.work]
    /\ UNCHANGED <<cell, cellDropped, activeLock, active, alloc, value,
                   strong, txns, GC_COUNT, poisoned, idl>>

\* Mutant: a commit that never hands the generation it replaces to the
\* collector.
EbrCommitDeferForget(t) ==
    /\ cell = "EbrCell"
    /\ Has(wr, t) /\ t.pc = "cswapped"
    /\ garbage' = garbage /\ rd' = rd
    /\ wr' = Take(wr, t)
    /\ write' = FALSE
    /\ scen' = ScenStep([op |-> "commit", g |-> t.new])
    /\ hist' = [hist EXCEPT !.committed = t.work]
    /\ UNCHANGED <<cell, cellDropped, activeLock, active, alloc, value,
                   strong, txns, GC_COUNT, poisoned, idl>>

\* EbrCell::commit: guard.defer(drop(prev_data.into_owned())); on return the
\* guard is unpinned and the transaction's `write` guard is released.
EbrCommitDeferLeaving(t, left) ==
    /\ cell = "EbrCell"
    /\ Has(wr, t) /\ t.pc = "cswapped"
    /\ Defer(t.prev)
    /\ wr' = Take(wr, t) (+) left
    /\ write' = FALSE
    /\ scen' = ScenStep([op |-> "commit", g |-> t.new])
    /\ hist' = [hist EXCEPT !.committed = t.work]
    /\ UNCHANGED <<cell, cellDropped, activeLock, active, alloc, value,
                   strong, txns, GC_COUNT, poisoned, idl>>

\* commit returns and its thread goes on to other things.
EbrCommitDefer(t) == EbrCommitDeferLeaving(t, EmptyBag)

\* Mutant: a collector that counts references as an Arc does; it runs a
\* deferred destruction as soon as no read transaction points to the
\* generation, whatever guards were pinned when it was deferred.
EbrCollectUnreferenced(g) ==
    /\ cell = "EbrCell"
    /\ garbage[g] > 0
    /\ \A t \in BagToSet(rd) : t.pc = "open" => t.data # g
    /\ garbage' = [garbage EXCEPT ![g] = @ - 1]
    /\ SetHeap(DropValue(Heap, g))
    /\ UNCHANGED <<hist, cell, cellDropped, write, activeLock, active, rd, wr,
                   txns, scen, poisoned, idl>>

\* The epoch collector runs a deferred destruction once every guard that
\* was pinned when it was deferred has been unpinned.
EbrCollect(g) ==
    /\ cell = "EbrCell"
    /\ garbage[g] > 0
    /\ \A t \in BagToSet(rd) : g \notin t.blocks
    /\ garbage' = [garbage EXCEPT ![g] = @ - 1]
    /\ SetHeap(DropValue(Heap, g))
    /\ UNCHANGED <<hist, cell, cellDropped, write, activeLock, active, rd, wr,
                   txns, scen, poisoned, idl>>

\* Mutant: an EbrCell without its Drop: the Atomic goes and the value it
\* points to is handed to no one.
EbrDropCellNoDefer ==
    /\ cell = "EbrCell" /\ ~cellDropped
    /\ wr = EmptyBag
    /\ \A t \in BagToSet(rd) : t.pc = "open"
    /\ cellDropped' = TRUE
    /\ garbage' = garbage /\ rd' = rd
    /\ scen' = Off
    /\ UNCHANGED <<hist, cell, write, activeLock, active, alloc, value,
                   strong, wr, txns, GC_COUNT, poisoned, idl>>

\* Drop for EbrCell: pin, load `active`, defer its destruction, unpin.
EbrDropCell ==
    /\ cell = "EbrCell" /\ ~cellDropped
    /\ wr = EmptyBag
    /\ \A t \in BagToSet(rd) : t.pc = "open"
    /\ cellDropped' = TRUE
    /\ Defer(active.data)
    /\ scen' = Off
    /\ UNCHANGED <<hist, cell, write, activeLock, active, alloc, value,
                   strong, wr, txns, GC_COUNT, poisoned, idl>>

----------------------------------------------------------------------------
Next ==
    \/ BeginReadLock
    \/ \E t \in BagToSet(rd) : BeginReadClone(t)
    \/ \E t \in BagToSet(rd) : CloseRead(t)
    \/ BeginWriteCall
    \/ \E t \in BagToSet(wr) : BeginWriteLock(t)
    \/ \E t \in BagToSet(wr), v \in Values : GetMut(t, v)
    \/ \E t \in BagToSet(wr) : Abort(t)
    \/ \E t \in BagToSet(wr) : BeginWriteActive(t)
    \/ \E t \in BagToSet(wr) : BeginWriteClone(t)
    \/ \E t \in BagToSet(wr) : CommitLock(t)
    \/ \E t \in BagToSet(wr) : LinCommitLink(t)
    \/ \E t \in BagToSet(wr) : LinCommitSwap(t)
    \/ \E t \in BagToSet(wr) : CowCommitNew(t)
    \/ \E t \in BagToSet(wr) : CowCommitSwap(t)
    \/ ArcDropCell
    \/ EbrBeginReadPin
    \/ \E t \in BagToSet(rd) : EbrBeginReadLoad(t)
    \/ \E t \in BagToSet(rd) : EbrCloseRead(t)
    \/ \E t \in BagToSet(wr) : EbrBeginWriteClone(t)
    \/ \E t \in BagToSet(wr) : EbrCommitLoad(t)
    \/ \E t \in BagToSet(wr) : EbrCommitCAS(t)
    \/ \E t \in BagToSet(wr) : EbrCommitDefer(t)
    \/ \E g \in Gens : EbrCollect(g)
    \/ EbrDropCell

Spec == Init /\ [][Next]_vars

----------------------------------------------------------------------------
\* Panics.  std's Mutex is poisoned when its guard is dropped while the
\* thread that holds it is panicking, and lock() on a poisoned mutex returns
\* Err, on which the cells' unwrap() panics.  The code the cells run that
\* can panic is the user's: what runs between begin_write_txn and commit,
\* and T::clone inside begin_write_txn.  (`active` is poisoned only together
\* with `write`, so no call that is past `write` ever finds it poisoned.)

\* A thread panics while it has a write transaction open: the unwinding
\* drops the transaction, its working copy and its guard of `write`.
PanicOpen(t) ==
    /\ Has(wr, t) /\ t.pc = "open"
    /\ wr' = Take(wr, t)
    /\ GC_COUNT' = GC_COUNT + 1
    /\ write' = FALSE
    /\ poisoned' = poisoned \cup {"write"}
    /\ scen' = Off
    /\ UNCHANGED <<hist, cell, cellDropped, activeLock, active, alloc, value,
                   strong, garbage, rd, txns, idl>>

\* T::clone panics inside begin_write_txn: the unwinding drops mguard and,
\* in LinCowCell and CowCell, rwguard.
PanicClone(t) ==
    /\ Has(wr, t)
    /\ t.pc = (IF cell \in ArcCells THEN "wactive" ELSE "wlocked")
    /\ wr' = Take(wr, t)
    /\ write' = FALSE
    /\ activeLock' = FALSE
    /\ poisoned' = poisoned \cup
            (IF cell \in ArcCells THEN {"write", "active"} ELSE {"write"})
    /\ scen' = Off
    /\ UNCHANGED <<hist, cell, cellDropped, active, alloc, value, strong,
                   garbage, rd, txns, GC_COUNT, idl>>

\* begin_write_txn on a cell whose `write` is poisoned: lock() returns Err
\* once the mutex is free, unwrap panics, and the call yields nothing.
BeginWritePoisoned(t) ==
    /\ Has(wr, t) /\ t.pc = "want"
    /\ ~write /\ "write" \in poisoned
    /\ wr' = Take(wr, t)
    /\ scen' = Off
    /\ UNCHANGED <<hist, cell, cellDropped, write, activeLock, active, alloc,
                   value, strong, garbage, rd, txns, GC_COUNT, poisoned, idl>>

PanicNext ==
    \/ \E t \in BagToSet(wr) : PanicOpen(t)
    \/ \E t \in BagToSet(wr) : PanicClone(t)
    \/ \E t \in BagToSet(wr) : BeginWritePoisoned(t)

\* The cells used by threads that may panic.
PanicSpec == Init /\ [][Next \/ PanicNext]_vars

----------------------------------------------------------------------------
\* test_multithread_create of the three cells: RtWriters threads run
\* rt_writer and NumWriters threads run mt_writer on one cell that holds 0
\* (7 and 3 threads in the tests).  A thread at the head of its loop has no
\* transaction, so no record in rd or wr; a thread that has left its loop
\* leaves a "done" record.
RtWriters == NumReaders - 1

DoneRd == NewRd("done")
DoneWr == [NewWr EXCEPT !.pc = "done"]

\* `while last_value < 500`, at the end of a loop body that has set
\* last_value to v: what the thread leaves in the bag of transactions.
AfterLoop(v, done) == IF v < Limit THEN EmptyBag ELSE SetToBag({done})

\* let data: i64 = 0; let cc = ...::new(data);
WorkInit == Init /\ value[1] = 0

\* rt_writer: a thread at the head of its loop calls begin_read_txn.
RtWriterBegin ==
    /\ BagCardinality(rd) < RtWriters
    /\ (BeginReadLock \/ EbrBeginReadPin)

\* mt_writer: last_value = *mut_ptr; *mut_ptr = *mut_ptr + 1.  The thread
\* holds `write`, so the current generation is the one it cloned, and its
\* working copy equals that value until it has been incremented.
MtWriterIncrement(t) ==
    /\ t.work = value[active.data]
    /\ GetMut(t, t.work + 1)

\* mt_writer: cc_wrtxn.commit() is called, after the increment.
MtWriterCommit(t) ==
    /\ t.work # value[active.data]
    /\ (CommitLock(t) \/ EbrCommitLoad(t))

\* mt_writer: commit returns, and the loop ends if the value read at the
\* start of the body (the working copy less the increment) was >= Limit.
MtWriterLoop(t) ==
    LET left == AfterLoop(t.work - 1, DoneWr) IN
        \/ LinCommitSwapLeaving(t, left)
        \/ CowCommitSwapLeaving(t, left)
        \/ EbrCommitDeferLeaving(t, left)

\* rt_writer: last_value = *cc_rotxn; the transaction is dropped at the end
\* of the body, and the loop ends if last_value >= Limit.
RtWriterLoop(t) ==
    LET left == AfterLoop(t.seen, DoneRd) IN
        \/ CloseReadLeaving(t, left)
        \/ EbrCloseReadLeaving(t, left)

WorkNext ==
    \/ RtWriterBegin
    \/ \E t \in BagToSet(rd) : BeginReadClone(t)
    \/ \E t \in BagToSet(rd) : EbrBeginReadLoad(t)
    \/ \E t \in BagToSet(rd) : RtWriterLoop(t)
    \/ BeginWriteStart
    \/ \E t \in BagToSet(wr) : BeginWriteLock(t)
    \/ \E t \in BagToSet(wr) : BeginWriteActive(t)
    \/ \E t \in BagToSet(wr) : BeginWriteClone(t)
    \/ \E t \in BagToSet(wr) : EbrBeginWriteClone(t)
    \/ \E t \in BagToSet(wr) : MtWriterIncrement(t)
    \/ \E t \in BagToSet(wr) : MtWriterCommit(t)
    \/ \E t \in BagToSet(wr) : LinCommitLink(t)
    \/ \E t \in BagToSet(wr) : CowCommitNew(t)
    \/ \E t \in BagToSet(wr) : EbrCommitCAS(t)
    \/ \E t \in BagToSet(wr) : MtWriterLoop(t)
    \/ \E g \in Gens : EbrCollect(g)

\* Scheduling: every thread that can take a step eventually takes one
\* (weak fairness), and a thread that waits for a mutex gets it if the mutex
\* is free again and again (strong fairness on the lock acquisitions).  The
\* epoch collector is under no obligation.
WorkFair ==
    /\ SF_vars(RtWriterBegin)
    /\ WF_vars(\E t \in BagToSet(rd) : BeginReadClone(t))
    /\ WF_vars(\E t \in BagToSet(rd) : EbrBeginReadLoad(t))
    /\ WF_vars(\E t \in BagToSet(rd) : RtWriterLoop(t))
    /\ WF_vars(BeginWriteStart)
    /\ SF_vars(\E t \in BagToSet(wr) : BeginWriteLock(t))
    /\ SF_vars(\E t \in BagToSet(wr) : BeginWriteActive(t))
    /\ WF_vars(\E t \in BagToSet(wr) : BeginWriteClone(t))
    /\ WF_vars(\E t \in BagToSet(wr) : EbrBeginWriteClone(t))
    /\ WF_vars(\E t \in BagToSet(wr) : MtWriterIncrement(t))
    /\ SF_vars(\E t \in BagToSet(wr) : MtWriterCommit(t))
    /\ WF_vars(\E t \in BagToSet(wr) : LinCommitLink(t))
    /\ WF_vars(\E t \in BagToSet(wr) : CowCommitNew(t))
    /\ WF_vars(\E t \in BagToSet(wr) : EbrCommitCAS(t))
    /\ WF_vars(\E t \in BagToSet(wr) : MtWriterLoop(t))

Workload == WorkInit /\ [][WorkNext]_vars /\ WorkFair

----------------------------------------------------------------------------
\* test_gc_operation of the three cells: NumWriters threads run
\* test_gc_operation_thread on one cell that holds 0, each until it finds
\* GC_COUNT at GcTarget or more.  No read transaction is ever opened.  A
\* thread at the head of its loop has no record in wr; a thread that has
\* left its loop leaves a "done" record.

\* The threads that have not left their loops.
GcRunning == NumWriters - CopiesIn(DoneWr, wr)

\* `while GC_COUNT.load(Acquire) < 50` is true and the thread calls
\* begin_write_txn.  (The model has room for MaxGen generations: a thread
\* starts a transaction only if there is room for the one it will create.)
GcThreadBegin ==
    /\ GC_COUNT < GcTarget
    /\ NGen + BagCardinality(wr) - CopiesIn(DoneWr, wr) < MaxGen
    /\ BeginWriteStart

\* `while GC_COUNT.load(Acquire) < 50` is false: the thread returns.
GcThreadExit ==
    /\ GC_COUNT >= GcTarget
    /\ BagCardinality(wr) < NumWriters
    /\ wr' = Put(wr, DoneWr)
    /\ UNCHANGED <<hist, cell, cellDropped, write, activeLock, active, alloc,
                   value, strong, garbage, rd, txns, GC_COUNT, scen, poisoned,
                   idl>>

\* crossbeam-epoch runs deferred destructions inside pin() and defer() of the
\* threads that use it (a thread's bag of deferred functions is handed over
\* when it is full, and every so many pins a thread collects the bags whose
\* epoch has passed): the collector moves only while some thread is still
\* going through begin_write_txn and commit.
GcCollect(g) ==
    /\ GcRunning > 0
    /\ EbrCollect(g)

GcNext ==
    \/ GcThreadBegin
    \/ GcThreadExit
    \/ \E t \in BagToSet(wr) : BeginWriteLock(t)
    \/ \E t \in BagToSet(wr) : BeginWriteActive(t)
    \/ \E t \in BagToSet(wr) : BeginWriteClone(t)
    \/ \E t \in BagToSet(wr) : EbrBeginWriteClone(t)
    \/ \E t \in BagToSet(wr) : MtWriterIncrement(t)
    \/ \E t \in BagToSet(wr) : MtWriterCommit(t)
    \/ \E t \in BagToSet(wr) : LinCommitLink(t)
    \/ \E t \in BagToSet(wr) : LinCommitSwap(t)
    \/ \E t \in BagToSet(wr) : CowCommitNew(t)
    \/ \E t \in BagToSet(wr) : CowCommitSwap(t)
    \/ \E t \in BagToSet(wr) : EbrCommitCAS(t)
    \/ \E t \in BagToSet(wr) : EbrCommitDefer(t)
    \/ \E g \in Gens : GcCollect(g)

\* Scheduling: as in WorkFair for the threads; and the collector, which the
\* running threads drive, does run a destruction that nothing holds back.
GcFair ==
    /\ WF_vars(GcThreadBegin)
    /\ WF_vars(GcThreadExit)
    /\ SF_vars(\E t \in BagToSet(wr) : BeginWriteLock(t))
    /\ SF_vars(\E t \in BagToSet(wr) : BeginWriteActive(t))
    /\ WF_vars(\E t \in BagToSet(wr) : BeginWriteClone(t))
    /\ WF_vars(\E t \in BagToSet(wr) : EbrBeginWriteClone(t))
    /\ WF_vars(\E t \in BagToSet(wr) : MtWriterIncrement(t))
    /\ SF_vars(\E t \in BagToSet(wr) : MtWriterCommit(t))
    /\ WF_vars(\E t \in BagToSet(wr) : LinCommitLink(t))
    /\ WF_vars(\E t \in BagToSet(wr) : LinCommitSwap(t))
    /\ WF_vars(\E t \in BagToSet(wr) : CowCommitNew(t))
    /\ WF_vars(\E t \in BagToSet(wr) : CowCommitSwap(t))
    /\ WF_vars(\E t \in BagToSet(wr) : EbrCommitCAS(t))
    /\ WF_vars(\E t \in BagToSet(wr) : EbrCommitDefer(t))
    /\ \A g \in Gens : WF_vars(GcCollect(g))

GcWorkload == WorkInit /\ [][GcNext]_vars /\ GcFair

----------------------------------------------------------------------------
\* The ID lists, as the tests of lib.rs use them: two lists are built with
\* from_iter from strictly ascending ids, as an IDLSimple and as an
\* IDLBitRange each, and one operator is applied to them.  (No cell takes
\* part: the cell variables keep the state of a new cell.)
IdlInit ==
    /\ CellInit /\ cell = "CowCell" /\ value[1] = 0
    /\ idl \in {[IdlOff EXCEPT !.a = Ascending(A), !.b = Ascending(B),
                                !.op = "new"] : A, B \in SUBSET Ids}

\* idl_a & idl_b
IdlBitAnd ==
    /\ idl.op = "new"
    /\ idl' = [idl EXCEPT
            !.op = "bitand",
            !.simple = IDLSimple_bitand(IDLSimple_from_iter(idl.a),
                                        IDLSimple_from_iter(idl.b)),
            !.range = IDLBitRange_bitand(IDLBitRange_from_iter(idl.a),
                                         IDLBitRange_from_iter(idl.b))]
    /\ UNCHANGED cellVars

\* idl_a | idl_b
IdlBitOr ==
    /\ idl.op = "new"
    /\ idl' = [idl EXCEPT
            !.op = "bitor",
            !.simple = IDLSimple_bitor(IDLSimple_from_iter(idl.a),
                                       IDLSimple_from_iter(idl.b)),
            !.range = IDLBitRange_bitor(IDLBitRange_from_iter(idl.a),
                                        IDLBitRange_from_iter(idl.b))]
    /\ UNCHANGED cellVars

\* idl_a.andnot(idl_b)
IdlAndNot ==
    /\ idl.op = "new"
    /\ idl' = [idl EXCEPT
            !.op = "andnot",
            !.simple = IDLSimple_andnot(IDLSimple_from_iter(idl.a),
                                        IDLSimple_from_iter(idl.b)),
            !.range = IDLBitRange_andnot(IDLBitRange_from_iter(idl.a),
                                         IDLBitRange_from_iter(idl.b))]
    /\ UNCHANGED cellVars

IdlNext ==
    \/ IdlBitAnd
    \/ IdlBitOr
    \/ IdlAndNot

IdlSpec == IdlInit /\ [][IdlNext]_vars

----------------------------------------------------------------------------
\* Properties.

\* The write transactions that hold the `write` lock.
Holding == {t \in BagToSet(wr) : t.pc \notin {"want", "done"}}
\* A commit is in progress: commit() has been called and has not returned.
Committing ==
    \E t \in BagToSet(wr) : t.pc \in {"clocked", "clinked", "cloaded", "cswapped"}
\* The read transactions that are open.
OpenRd == {t \in BagToSet(rd) : t.pc = "open"}

\* C1 (snapshot stability): in each cell, the value read through an open read
\* transaction is the value that was current when it began, whatever
\* begin_write_txn, get_mut and commit operations happened since.
SnapshotStable ==
    \A t \in OpenRd : t.seen \in Values /\ Deref(t) = t.seen

\* A read transaction is still open on a generation that has been superseded
\* by a commit of a different value, while a write transaction is being
\* mutated.
SnapshotStableWitness ==
    \E t \in OpenRd :
        /\ t.data # active.data
        /\ value[active.data] # t.seen
        /\ \E u \in BagToSet(wr) : u.pc = "open" /\ u.work # t.seen

\* C2 (writer serialization): at most one write transaction holds the `write`
\* lock at any time, the lock is held exactly while one does, and every other
\* begin_write_txn call is still waiting.
WriterSerialization ==
    /\ Copies(wr, Holding) <= 1
    /\ write <=> Holding # {}

\* A write transaction is open and has been mutated while another
\* begin_write_txn call waits for it.
WriterSerializationWitness ==
    /\ \E t \in BagToSet(wr) : t.pc = "open" /\ t.work # value[active.data]
    /\ \E u \in BagToSet(wr) : u.pc = "want"

\* C3 (linear reclamation scenario, LinCowCell): along the script -- open
\* read A, commit, open read B, commit, open read C, close B, close C,
\* close A -- the count of destroyed values is 0 after the opens and commits
\* (position 5), 0 after closing B (6), 0 after closing C (7) and exactly 2
\* after closing A (8): generations 1 and 2 freed, generation 3 current and
\* alive.
LinearScenarioCounts ==
    cell = "LinCowCell" =>
        /\ scen \in {5, 6, 7} => GC_COUNT = 0
        /\ scen = Len(Script) =>
            /\ GC_COUNT = 2
            /\ alloc[1] = "freed" /\ alloc[2] = "freed"
            /\ active.data = 3 /\ alloc[3] = "live"

\* C4 (strict reclamation order, LinCowCell): generations are destroyed in
\* creation order: no generation is destroyed while one created before it is
\* still allocated.
StrictReclamationOrder ==
    cell = "LinCowCell" =>
        \A g, k \in Gens : g < k /\ alloc[k] = "freed" => alloc[g] = "freed"

\* C5 (LinCowCell): closing a read transaction that observes a newer
\* generation while a read transaction on an older generation is open
\* destroys nothing.
NewerCloseFreesNothing ==
    [][ (/\ cell = "LinCowCell"
         /\ \E t \in OpenRd :
               /\ rd' = Take(rd, t)
               /\ \E u \in OpenRd : u.data < t.data)
        => alloc' = alloc ]_vars

\* C6 (reclamation cascade, LinCowCell): when the oldest outstanding read
\* transaction is closed, every superseded generation from its own up to
\* (not including) the one the oldest remaining read transaction observes --
\* up to the current one if no reader remains -- is destroyed by that close,
\* nothing older is left allocated, and the current generation stays alive.
OldestCloseCascades ==
    [][ \A t \in OpenRd :
          (/\ cell = "LinCowCell" /\ ~cellDropped
           /\ rd' = Take(rd, t)
           /\ \A u \in BagToSet(rd') : u.pc = "open" => u.data > t.data)
          => LET rest == {u.data : u \in {x \in BagToSet(rd') : x.pc = "open"}}
                 bound == IF rest = {} THEN active.data ELSE Min(rest)
             IN  /\ \A g \in Gens : t.data <= g /\ g < bound
                        => alloc[g] = "live" /\ alloc'[g] = "freed"
                 /\ \A g \in Gens : g < t.data => alloc'[g] = "freed"
                 /\ alloc'[active.data] = "live" ]_vars

\* C7 (CowCell, LinCowCell): a generation's value is never destroyed while
\* it is the cell's current generation or while an open read transaction
\* observes it.
ArcNoUseAfterFree ==
    cell \in ArcCells =>
        /\ ~cellDropped => alloc[active.data] = "live"
        /\ \A t \in OpenRd : alloc[t.data] = "live"

\* A read transaction is open on a superseded generation while another
\* superseded generation has already been destroyed.
ArcNoUseAfterFreeWitness ==
    /\ cell \in ArcCells
    /\ \E t \in OpenRd : t.data # active.data
    /\ \E g \in Gens : alloc[g] = "freed"

\* C8 (EbrCell read safety): the value an open read transaction points to is
\* never destroyed while the transaction is open, and a generation retired
\* (by a commit or by the drop of the cell) while a read transaction's guard
\* is pinned is not destroyed before that guard is released.
EbrNoUseAfterFree ==
    cell = "EbrCell" =>
        /\ \A t \in OpenRd : alloc[t.data] = "live"
        /\ \A t \in BagToSet(rd) : \A g \in t.blocks : alloc[g] = "live"

\* The cell has been dropped while one read transaction is open on its last
\* generation and another on a generation retired by a commit; both
\* destructions are deferred.
EbrNoUseAfterFreeWitness ==
    /\ cell = "EbrCell" /\ cellDropped
    /\ \E t \in OpenRd : t.data = active.data /\ garbage[t.data] > 0
    /\ \E t \in OpenRd : t.data # active.data /\ garbage[t.data] > 0

\* C9 (round trip): a read transaction that loads the current generation
\* while no commit is in progress observes exactly the working copy passed
\* to the last commit that returned, or the value given to new() if there
\* was none.
RoundTrip ==
    [][ \A s \in BagToSet(rd), t \in BagToSet(rd') :
          (/\ s.pc \in {"locked", "pinned"} /\ t.pc = "open"
           /\ rd' = Put(Take(rd, s), t)
           /\ ~Committing)
          => t.seen = hist.committed ]_vars

\* A read transaction opened after a commit observes the committed value
\* while an older read transaction still observes a different initial value.
RoundTripWitness ==
    /\ ~Committing
    /\ \E t \in OpenRd :
        /\ t.data = active.data /\ t.data > 1 /\ t.seen = hist.committed
        /\ \E u \in OpenRd : u.data = 1 /\ u.seen # t.seen

\* C10 (uncommitted changes are invisible): whatever get_mut has written
\* into open write transactions, a read transaction only ever observes the
\* value given to new() or a value that a commit has published.
UncommittedInvisible ==
    \A t \in OpenRd : Deref(t) \in hist.published

\* A read transaction is open on the current generation while a write
\* transaction holds a working copy whose value was never published.
UncommittedInvisibleWitness ==
    /\ \E u \in BagToSet(wr) : u.pc = "open" /\ u.work \notin hist.published
    /\ \E t \in OpenRd : t.data = active.data

\* C11 (abort leaves the cell unchanged): from the moment a write
\* transaction holds the `write` lock until it is dropped without commit,
\* no step -- the drop included -- changes the cell's current generation,
\* creates a generation or changes the committed value; the current
\* generation holds the value of the last commit, and that is what a read
\* transaction opened on it before, during or after observes.
AbortLeavesCellUnchanged ==
    [][ (Holding # {} /\ ~Committing /\ ~Committing')
        => /\ active' = active
           /\ NGen' = NGen
           /\ hist'.committed = hist.committed
           /\ hist'.published = hist.published
           /\ alloc'[active.data] = "live"
           /\ value[active.data] = hist.committed
           /\ value'[active.data] = hist.committed
           /\ \A r \in BagToSet(rd') :
                 r.pc = "open" /\ r.data = active.data
                     => r.seen = hist.committed ]_vars

\* A write transaction has been dropped without commit (its working copy is
\* the only value destroyed so far) while a read transaction opened before
\* it is still open, and a second write transaction has begun.
AbortLeavesCellUnchangedWitness ==
    /\ NGen = 1 /\ GC_COUNT = 1 /\ txns = 2
    /\ \E r \in OpenRd : r.data = 1
    /\ \E t \in BagToSet(wr) : t.pc = "open" /\ t.work = hist.committed

\* C12 (the writer lock is released on every way a write transaction ends):
\* the step that ends a write transaction -- the return of commit, or the
\* drop without commit -- leaves the `write` lock free, and whenever the lock
\* is free every begin_write_txn call that waits for it can return.
WriterLockReleased ==
    /\ [][ \A t \in Holding : wr' = Take(wr, t) => ~write' ]_vars
    /\ [](~write => \A u \in BagToSet(wr) :
                        u.pc = "want" => ENABLED BeginWriteLock(u))

\* One write transaction has committed and another was dropped without
\* commit; the lock is free.
WriterLockReleasedWitness ==
    /\ ~write /\ txns = 2 /\ wr = EmptyBag
    /\ NGen = 2 /\ GC_COUNT >= 1 /\ alloc[1] = "live"

\* The calls that are inside a critical section of the `active` mutex.
InActiveRd == {t \in BagToSet(rd) : t.pc = "locked"}
InActiveWr == {t \in BagToSet(wr) : t.pc \in {"wactive", "clocked", "clinked"}}

\* C13 (reads do not block): begin_read_txn never waits for the `write` lock.
\* In EbrCell it takes no lock at all; in LinCowCell and CowCell it takes
\* only `active`, which is held only inside a begin_read_txn, begin_write_txn
\* or commit call that waits for nothing while it holds it.  So a call can
\* start whenever `active` is free and always runs to its end, whatever write
\* transaction is open, however many writers wait and however many read
\* transactions are open (NumReaders only bounds the threads of the model).
ReadNonBlocking ==
    /\ (/\ cell \in ArcCells /\ ~cellDropped /\ ~activeLock
        /\ BagCardinality(rd) < NumReaders) => ENABLED BeginReadLock
    /\ (/\ cell = "EbrCell" /\ ~cellDropped
        /\ BagCardinality(rd) < NumReaders) => ENABLED EbrBeginReadPin
    /\ \A t \in BagToSet(rd) :
          /\ t.pc = "locked" => ENABLED BeginReadClone(t)
          /\ t.pc = "pinned" => ENABLED EbrBeginReadLoad(t)
    /\ activeLock => InActiveRd \cup InActiveWr # {}
    /\ \A t \in InActiveWr :
          /\ t.pc = "wactive" => ENABLED BeginWriteClone(t)
          /\ t.pc = "clocked" => ENABLED (LinCommitLink(t) \/ CowCommitNew(t))
          /\ t.pc = "clinked" => ENABLED (LinCommitSwap(t) \/ CowCommitSwap(t))

\* A begin_read_txn call is in progress while a write transaction is open and
\* mutated, another writer waits for the lock and a read transaction is open.
ReadNonBlockingWitness ==
    /\ \E t \in BagToSet(rd) : t.pc \in {"locked", "pinned"}
    /\ OpenRd # {}
    /\ \E t \in BagToSet(wr) : t.pc = "open" /\ t.work # value[active.data]
    /\ \E t \in BagToSet(wr) : t.pc = "want"

ReadsDoNotBlockWrites ==
    /\ write => Holding # {}
    /\ activeLock => Copies(rd, InActiveRd) + Copies(wr, InActiveWr) = 1
    /\ \A t \in BagToSet(wr) :
          /\ t.pc = "want" => write \/ ENABLED BeginWriteLock(t)
          /\ t.pc = "wlocked" =>
                IF cell = "EbrCell" THEN ENABLED EbrBeginWriteClone(t)
                ELSE activeLock \/ ENABLED BeginWriteActive(t)
          /\ t.pc = "open" =>
                IF cell = "EbrCell" THEN ENABLED EbrCommitLoad(t)
                ELSE activeLock \/ ENABLED CommitLock(t)
          /\ t.pc = "cloaded" => ENABLED EbrCommitCAS(t)
          /\ t.pc = "cswapped" => ENABLED EbrCommitDefer(t)

\* Two commits have completed while a read transaction stayed open on the
\* first generation, and as many read transactions are open as the model
\* has reader threads.
ReadsDoNotBlockWritesWitness ==
    /\ active.data = 3 /\ wr = EmptyBag
    /\ \E r \in OpenRd : r.data = 1
    /\ Copies(rd, OpenRd) = NumReaders

\* The write transactions whose commit has been called and has not created
\* its generation yet.
Uncreated == {t \in BagToSet(wr) : t.pc \in {"clocked", "cloaded"}}
\* The program points inside commit, in the order they are passed.
CommitPcs == {"clocked", "clinked", "cloaded", "cswapped"}

\* C20 (one generation per write transaction): commit is called at most once
\* per begin_write_txn; the generations created are the initial one and one
\* per commit call (the one of a commit still at its start being yet to
\* come); and once commit has been called on a transaction, every step
\* either leaves it alone, moves it on inside commit with the same working
\* copy, or ends it: it is neither mutated nor open again.
OneGenerationPerCommit ==
    /\ [](/\ hist.commits <= txns
          /\ NGen = 1 + hist.commits - Copies(wr, Uncreated))
    /\ [][ \A t \in BagToSet(wr) : t.pc \in CommitPcs =>
              \/ CopiesIn(t, wr') >= CopiesIn(t, wr)
              \/ wr' = Take(wr, t)
              \/ \E u \in BagToSet(wr') :
                    /\ wr' = Put(Take(wr, t), u)
                    /\ u.pc \in CommitPcs /\ u.pc # t.pc
                    /\ u.work = t.work ]_vars

\* Of two write transactions one was committed and one dropped without
\* commit: two generations exist.
OneGenerationPerCommitWitness ==
    /\ txns = 2 /\ wr = EmptyBag
    /\ hist.commits = 1 /\ NGen = 2 /\ GC_COUNT >= 1

\* C17 (monotonic reads): generations are numbered in commit order, and the
\* generation a begin_read_txn call obtains is never older than one that a
\* begin_read_txn call obtained before it -- by any thread, so in particular
\* by the same thread -- whatever commits run meanwhile.
MonotonicReads ==
    [][ \A s \in BagToSet(rd), t \in BagToSet(rd') :
          (/\ s.pc \in {"locked", "pinned"} /\ t.pc = "open"
           /\ rd' = Put(Take(rd, s), t))
          => /\ t.data >= hist.read
             /\ hist'.read = t.data
             /\ \A u \in OpenRd : u.data <= t.data ]_vars

\* While a commit is in progress, a read transaction is open on the newest
\* generation handed out so far and an earlier one is still open on an older
\* generation.
MonotonicReadsWitness ==
    /\ Committing
    /\ \E t \in OpenRd :
          /\ t.data = hist.read /\ t.data = 3
          /\ \E u \in OpenRd : u.data < t.data

\* Every thread of test_multithread_create has left its loop.
AllDone ==
    /\ CopiesIn(DoneRd, rd) = RtWriters
    /\ CopiesIn(DoneWr, wr) = NumWriters

NoLostUpdates ==
    [][ /\ \A s \in BagToSet(wr), t \in BagToSet(wr') :
             (/\ s.pc \in {"wlocked", "wactive"} /\ t.pc = "open"
              /\ wr' = Put(Take(wr, s), t))
             => t.work = hist.committed /\ t.work = hist.commits
        /\ \A t \in BagToSet(wr) :
             (t.pc \in {"clinked", "cswapped"} /\ CopiesIn(t, wr') < CopiesIn(t, wr))
             => /\ hist'.committed = hist.committed + 1
                /\ hist'.committed = t.work
                /\ value'[active'.data] = t.work
        /\ hist'.committed >= hist.committed ]_vars

\* One writer thread has left its loop; another has begun a transaction on
\* the value Limit + 1 and incremented its working copy.
NoLostUpdatesWitness ==
    /\ hist.committed = Limit + 1
    /\ CopiesIn(DoneWr, wr) = 1
    /\ \E t \in BagToSet(wr) : t.pc = "open" /\ t.work = Limit + 2

\* C19 (no poisoning): whatever threads have panicked with a write
\* transaction open or inside begin_write_txn, a begin_write_txn call that
\* finds `write` free returns a write transaction, and a begin_read_txn
\* call that finds `active` free returns a read transaction.
NoPoisoning ==
    /\ \A u \in BagToSet(wr) :
          u.pc = "want" /\ ~write => ENABLED BeginWriteLock(u)
    /\ (/\ cell \in ArcCells /\ ~cellDropped /\ ~activeLock
        /\ BagCardinality(rd) < NumReaders) => ENABLED BeginReadLock

\* The commit calls that have returned.
Committed == hist.commits - Copies(wr, {t \in BagToSet(wr) : t.pc \in CommitPcs})
\* The write transactions that were dropped without commit.
Aborted ==
    txns - hist.commits - Copies(wr, {t \in BagToSet(wr) : t.pc \notin CommitPcs})
\* The generations that are allocated / have been deallocated.
Live == {g \in Gens : alloc[g] = "live"}
Freed == {g \in Gens : alloc[g] = "freed"}

\* C21 (superseded generations are collected when unreferenced), CowCell and
\* LinCowCell, any interleaving of writers: a commit that completes while no
\* read transaction is open deallocates exactly the generation it
\* supersedes; whenever no read transaction is open, the generations
\* deallocated are the superseded ones, one per commit that has returned,
\* and the only generation allocated is the current one (besides the one a
\* commit in progress has created and not yet published); and with no
\* aborted write transaction the count of deallocated values is the number
\* of commits.
SupersededCollected ==
    /\ []((cell \in ArcCells /\ ~cellDropped /\ OpenRd = {}) =>
            /\ Freed = 1..Committed
            /\ active.data = Committed + 1
            /\ Live = {active.data} \cup
                      {t.new : t \in {u \in BagToSet(wr) : u.pc = "clinked"}}
            /\ GC_COUNT = Committed + Aborted)
    /\ [][ (/\ cell \in ArcCells /\ OpenRd = {}
             /\ \E t \in BagToSet(wr) : t.pc = "clinked" /\ wr' = Take(wr, t))
            => /\ Freed' = Freed \cup {active.data}
               /\ active'.data # active.data
               /\ Live' = {active'.data}
               /\ GC_COUNT' = GC_COUNT + 1 ]_vars

\* Two writers, one waiting for the other, have committed in turn; no read
\* transaction was ever opened, nothing was aborted: two values have been
\* deallocated and generation 3 alone is allocated.
SupersededCollectedWitness ==
    /\ cell \in ArcCells /\ ~cellDropped
    /\ hist.read = None /\ rd = EmptyBag /\ Aborted = 0
    /\ Committed = 2 /\ GC_COUNT = 2 /\ Live = {3}

IdSet(list) == {list[k] : k \in 1..Len(list)}

\* C23 (intersection): for strictly ascending lists a and b, both
\* IDLSimple::from_iter(a) & IDLSimple::from_iter(b) and the same on
\* IDLBitRange equal from_iter of the ascending list of the ids that are in
\* a and in b; an operand may be empty, or have one element / one range.
IntersectionCorrect ==
    idl.op = "bitand" =>
        LET expect == Ascending(IdSet(idl.a) \cap IdSet(idl.b)) IN
            /\ idl.simple = IDLSimple_from_iter(expect)
            /\ idl.range = IDLBitRange_from_iter(expect)

\* The intersection of a list that has two ids in one 64-id range with a
\* list of three ranges that has one of the two and another id of the range.
IntersectionCorrectWitness ==
    /\ idl.op = "bitand"
    /\ Len(idl.a) = 2 /\ Len(IDLBitRange_from_iter(idl.a)) = 1
    /\ Len(IDLBitRange_from_iter(idl.b)) = 3
    /\ Len(idl.simple) = 1
    /\ Len(IDLBitRange_bitor(IDLBitRange_from_iter(idl.a),
                             IDLBitRange_from_iter(idl.b))) = 3
    /\ ~(IdSet(idl.a) \subseteq IdSet(idl.b))

\* C24 (union): for strictly ascending lists a and b, both
\* IDLSimple::from_iter(a) | IDLSimple::from_iter(b) and the same on
\* IDLBitRange equal from_iter of the ascending, duplicate-free list of the
\* ids that are in a or in b.
UnionCorrect ==
    idl.op = "bitor" =>
        LET expect == Ascending(IdSet(idl.a) \cup IdSet(idl.b)) IN
            /\ idl.simple = IDLSimple_from_iter(expect)
            /\ idl.range = IDLBitRange_from_iter(expect)

\* The union of two lists that share an id and have each an id the other
\* has not, over several ranges.
UnionCorrectWitness ==
    /\ idl.op = "bitor"
    /\ IdSet(idl.a) \cap IdSet(idl.b) # {}
    /\ IdSet(idl.a) \ IdSet(idl.b) # {}
    /\ IdSet(idl.b) \ IdSet(idl.a) # {}
    /\ Len(idl.range) = 3 /\ Len(idl.simple) = NumIds

\* C25 (difference): for strictly ascending lists a and b, both
\* IDLSimple::from_iter(a).andnot(IDLSimple::from_iter(b)) and the same on
\* IDLBitRange equal from_iter of the ascending list of the ids of a that
\* are not in b.
DifferenceCorrect ==
    idl.op = "andnot" =>
        LET expect == Ascending(IdSet(idl.a) \ IdSet(idl.b)) IN
            /\ idl.simple = IDLSimple_from_iter(expect)
            /\ idl.range = IDLBitRange_from_iter(expect)

\* C26 (the `active` lock is not held during the deep clone), CowCell and
\* LinCowCell: the step of begin_write_txn that deep-clones the protected
\* value into the working copy runs with `active` free, so that a
\* begin_read_txn call can take `active` while a writer is at its clone.
ActiveFreeDuringClone ==
    /\ [][ \A s \in BagToSet(wr), t \in BagToSet(wr') :
              (/\ cell \in ArcCells
               /\ s.pc \in {"wlocked", "wactive"} /\ t.pc = "open"
               /\ wr' = Put(Take(wr, s), t))
              => ~activeLock ]_vars
    /\ []((/\ cell \in ArcCells /\ ~cellDropped
           /\ BagCardinality(rd) < NumReaders
           /\ InActiveRd = {}
           /\ \A t \in BagToSet(wr) : t.pc \notin {"clocked", "clinked"})
          => ENABLED BeginReadLock)

\* C27 (a reader's generation keeps its successors alive), LinCowCell: while
\* a read transaction is open on a generation, every generation published
\* after it is still allocated: none is deallocated before the older one
\* that the reader holds (as long as the cell itself exists).
NextLinkKeepsAlive ==
    (cell = "LinCowCell" /\ ~cellDropped) =>
        \A t \in OpenRd : \A k \in Gens :
            (t.data < k /\ k <= active.data) => alloc[k] = "live"

Link(g) == IF g = active.data THEN active.next ELSE None

\* Following at most n links from generation g reaches generation k.
RECURSIVE ReachesIn(_, _, _)
ReachesIn(g, k, n) ==
    \/ g = k
    \/ n > 0 /\ Link(g) # None /\ ReachesIn(Link(g), k, n - 1)

\* The generations that a commit has superseded and that are allocated.
Superseded == {g \in Live : g < active.data}

\* C29 (linear chain), LinCowCell: the allocated generations form one chain
\* from oldest to newest: each superseded, still-allocated generation has a
\* next link, following the links from it reaches the current generation,
\* no generation is the next of two generations, and no generation is
\* reached from its own next.
LinearChain ==
    (cell = "LinCowCell" /\ ~cellDropped) =>
        /\ \A g \in Superseded :
              Link(g) # None /\ ReachesIn(g, active.data, MaxGen)
        /\ \A g, k \in Gens : (Link(g) # None /\ Link(g) = Link(k)) => g = k
        /\ \A g \in Gens : Link(g) # None => ~ReachesIn(Link(g), g, MaxGen)

\* Some open read transaction references generation g.
Referenced(g) == \E t \in OpenRd : t.data = g

\* Where generation g is in its life: 0 not created, or created by a commit
\* that has not published it yet; 1 Current; 2 Retired (superseded, and
\* referenced by an open read transaction); 3 Reclaimable (superseded and
\* unreferenced); 4 Freed.
Phase(g) ==
    IF alloc[g] = "unborn" THEN 0
    ELSE IF alloc[g] = "freed" THEN 4
    ELSE IF g > active.data THEN 0
    ELSE IF g = active.data /\ ~cellDropped THEN 1
    ELSE IF Referenced(g) THEN 2
    ELSE 3

\* C30 (generation lifecycle), in the three cells: a generation only moves
\* forward through Current, Retired, Reclaimable, Freed.  It leaves Current
\* only when a commit in progress publishes a generation created after it
\* (or when the cell itself is dropped); the collector of EbrCell takes it
\* only when it is Reclaimable, that is superseded and referenced by no
\* open read transaction; the step that frees it leaves it
\* superseded and unreferenced, and it had been published; it never becomes
\* Current again; and a freed generation is neither current nor referenced
\* by an open read transaction.
GenerationLifecycle ==
    /\ [](/\ \A t \in OpenRd : alloc[t.data] = "live"
          /\ ~cellDropped => alloc[active.data] = "live")
    /\ [][ \A g \in Gens :
              LET p == Phase(g)
                  q == Phase(g)'
              IN  /\ q >= p
                  /\ (p = 1 /\ q # 1) =>
                        \/ ~cellDropped /\ cellDropped'
                        \/ /\ Committing
                           /\ \E n \in Gens :
                                 /\ n = active'.data /\ n > g
                                 /\ Phase(n) = 0 /\ Phase(n)' = 1
                  /\ garbage'[g] < garbage[g] => p = 3
                  /\ (p # 4 /\ q = 4) =>
                        /\ p >= 1
                        /\ g # active'.data \/ cellDropped'
                        /\ \A t \in BagToSet(rd') :
                              t.pc = "open" => t.data # g
                  /\ q = 1 => p \in {0, 1} ]_vars

\* CowCell or LinCowCell after two commits: generation 1 is freed,
\* generation 2 is retired and referenced by an open read transaction,
\* generation 3 is current.
GenerationLifecycleWitness ==
    /\ cell \in ArcCells
    /\ Phase(1) = 4 /\ Phase(2) = 2 /\ Phase(3) = 1

\* C31 (EbrCell pinning): a generation that a commit superseded while a read
\* transaction was open is not deallocated before that read transaction
\* closes.  A read transaction open on generation d began before any
\* generation from d onwards was superseded, so while it is open every
\* published generation from d onwards is still allocated, whichever newer
\* read transactions have closed meanwhile.
EbrPinning ==
    cell = "EbrCell" =>
        \A t \in OpenRd : \A g \in Gens :
            (t.data <= g /\ g <= active.data) => alloc[g] = "live"

\* A read transaction is open on generation 1; two commits have superseded
\* generations 1 and 2, both destructions are deferred and neither has run,
\* and no read transaction points to generation 2.
EbrPinningWitness ==
    /\ cell = "EbrCell" /\ active.data = 3
    /\ \E t \in OpenRd : t.data = 1
    /\ \A t \in OpenRd : t.data # 2
    /\ garbage[1] > 0 /\ garbage[2] > 0
    /\ alloc[1] = "live" /\ alloc[2] = "live"

\* The write transactions whose commit is in progress.
InCommit == {t \in BagToSet(wr) : t.pc \in CommitPcs}

\* C32 (publication before unlock): in each cell, from the start of a commit
\* until the commit has returned the `write` lock is held by the committing
\* transaction and by no one else, so no other writer locks it and clones
\* the value meanwhile; and the step of a commit that releases `write`
\* leaves the generation that commit created as the current one.
PublishBeforeUnlock ==
    /\ [](InCommit # {} =>
            /\ write
            /\ Holding = InCommit
            /\ BagCardinality(wr) - CopiesIn(NewWr, wr)
                   - CopiesIn(DoneWr, wr) = 1)
    /\ [][ (InCommit # {} /\ write /\ ~write') =>
              \E t \in InCommit : t.new # None /\ active'.data = t.new ]_vars

\* A commit has created its generation and not stored it yet, while another
\* writer waits in begin_write_txn for the `write` lock.
PublishBeforeUnlockWitness ==
    /\ \E t \in InCommit : t.new # None /\ active.data # t.new
    /\ Has(wr, NewWr)
    /\ write

\* C33 (the swap of EbrCell::commit succeeds): between commit's load of
\* `active` and its compare_and_set no one stores to `active`, so the
\* pointer loaded is still the current one at the swap; after the swap the
\* generation the commit allocated is current and allocated; and each
\* destruction a commit defers is that of the generation it loaded and
\* replaced, which is not the current one.
EbrSwapSucceeds ==
    /\ [](cell = "EbrCell" =>
            \A t \in InCommit :
                /\ t.prev = active.data \/ t.pc = "cswapped"
                /\ t.pc = "cswapped" =>
                      /\ active.data = t.new /\ alloc[t.new] = "live"
                      /\ value[t.new] = t.work
                      /\ t.prev # active.data)
    /\ [][ (cell = "EbrCell" /\ InCommit # {}) =>
              \A g \in Gens :
                 garbage'[g] > garbage[g] =>
                    /\ g # active'.data
                    /\ garbage'[g] = 1 /\ alloc[g] = "live"
                    /\ \E t \in InCommit : t.pc = "cswapped" /\ t.prev = g ]_vars

\* The second commit of an EbrCell has swapped generation 3 in for
\* generation 2 and has not deferred yet; the first commit deferred the
\* destruction of generation 1, which has not run.
EbrSwapSucceedsWitness ==
    /\ cell = "EbrCell"
    /\ \E t \in InCommit :
          t.pc = "cswapped" /\ t.prev = 2 /\ t.new = 3 /\ active.data = 3
    /\ garbage[1] = 1 /\ garbage[2] = 0

\* How many times the destruction of generation g of an EbrCell has been
\* handed to the collector: the deferred destructions that have not run,
\* and the one that has.
Scheduled(g) == garbage[g] + (IF alloc[g] = "freed" THEN 1 ELSE 0)

\* C34 (deferred exactly once): the destruction of a generation of an
\* EbrCell is never deferred twice and never deferred again after it ran;
\* it has been deferred exactly when a commit that replaced the generation
\* has gone through its guard.defer, or the generation was the current one
\* when the cell was dropped; once the cell is dropped every generation
\* ever created has been deferred once.
EbrDeferredOnce ==
    /\ [](cell = "EbrCell" =>
            \A g \in Gens :
                /\ Scheduled(g) <= 1
                /\ Scheduled(g) = 1 <=>
                      \/ /\ alloc[g] # "unborn" /\ g < active.data
                         /\ \A t \in InCommit : t.prev # g
                      \/ g = active.data /\ cellDropped
                /\ (cellDropped /\ alloc[g] # "unborn") => Scheduled(g) = 1)
    /\ [][ cell = "EbrCell" =>
              \A g \in Gens :
                 /\ garbage'[g] > garbage[g] => Scheduled(g) = 0
                 /\ Scheduled(g)' >= Scheduled(g) ]_vars

\* An EbrCell has been dropped after two commits: generation 1 has been
\* destroyed, the destructions of generations 2 and 3 are deferred and
\* have not run.
EbrDeferredOnceWitness ==
    /\ cell = "EbrCell" /\ cellDropped /\ active.data = 3
    /\ alloc[1] = "freed" /\ garbage[1] = 0
    /\ garbage[2] = 1 /\ garbage[3] = 1

\* The steps of LinCowCell and CowCell that are taken with the `active`
\* guard in hand: the rest of begin_read_txn, of begin_write_txn and of
\* commit after their self.active.lock().
ActiveHolderStep ==
    \/ \E t \in BagToSet(rd) : BeginReadClone(t)
    \/ \E t \in BagToSet(wr) : BeginWriteClone(t)
    \/ \E t \in BagToSet(wr) : LinCommitLink(t)
    \/ \E t \in BagToSet(wr) : LinCommitSwap(t)
    \/ \E t \in BagToSet(wr) : CowCommitNew(t)
    \/ \E t \in BagToSet(wr) : CowCommitSwap(t)

\* The steps of the holder of `write` that take `active`.
WriteHolderLockStep ==
    \/ \E t \in BagToSet(wr) : BeginWriteActive(t)
    \/ \E t \in BagToSet(wr) : CommitLock(t)

\* The steps of the transactions that exist: everything but the calls that
\* start a new one.
TxnStep ==
    \/ ActiveHolderStep
    \/ WriteHolderLockStep
    \/ \E t \in BagToSet(rd) : CloseRead(t)
    \/ \E t \in BagToSet(wr) : BeginWriteLock(t)
    \/ \E t \in BagToSet(wr) : Abort(t)

\* The transactions whose thread has not finished.
Unfinished ==
    {t \in BagToSet(rd) : t.pc # "done"} \cup {t \in BagToSet(wr) : t.pc # "done"}

\* C35 (deadlock freedom): in CowCell and LinCowCell a write transaction
\* that holds or takes `active` holds `write` already; whoever holds
\* `active` is not waiting for any lock (its next step can be taken); the
\* holder of `write` can take `active` whenever `active` is free; and in no
\* state are there unfinished transactions none of which can take a step.
DeadlockFree ==
    cell \in ArcCells =>
        /\ \A t \in BagToSet(wr) :
              t.pc \in {"wlocked", "wactive", "open", "clocked", "clinked"} =>
                 write
        /\ (\E t \in BagToSet(wr) : t.pc \in {"wactive", "clocked", "clinked"})
              => activeLock
        /\ activeLock => ENABLED ActiveHolderStep
        /\ (write /\ ~activeLock) => ENABLED WriteHolderLockStep
        /\ Unfinished # {} => ENABLED TxnStep

\* A commit holds both locks and has not stored its generation yet, while
\* another writer waits for `write` and a read transaction is open.
DeadlockFreeWitness ==
    /\ cell \in ArcCells /\ write /\ activeLock
    /\ \E t \in BagToSet(wr) : t.pc = "clinked"
    /\ Has(wr, NewWr)
    /\ OpenRd # {}

\* No call on the cell is in progress: every read transaction that exists
\* is open (or finished), every write transaction is open (or finished, or
\* has not got past its wait for `write`).
Quiescent ==
    /\ \A t \in BagToSet(rd) : t.pc \in {"open", "done"}
    /\ \A t \in BagToSet(wr) : t.pc \in {"want", "open", "done"}

\* The number of open read transactions on generation g.
Readers(g) == Copies(rd, {t \in OpenRd : t.data = g})

\* The handles of generation g the cell itself holds: the one in `active`.
CellHolds(g) == IF g = active.data /\ ~cellDropped THEN 1 ELSE 0

\* C36 (CowCell accounting): between operations, a generation of a CowCell
\* is allocated exactly if it is the current one or an open read
\* transaction references it; its reference count is 1 for the cell if it
\* is current plus the number of open read transactions on it; so there
\* are at most as many allocated generations as open read transactions,
\* plus one.
CowAccounting ==
    (cell = "CowCell" /\ Quiescent) =>
        /\ \A g \in Gens :
              /\ alloc[g] = "live" <=> (CellHolds(g) = 1 \/ Readers(g) > 0)
              /\ strong[g] = CellHolds(g) + Readers(g)
        /\ Cardinality({g \in Gens : alloc[g] = "live"})
              <= Copies(rd, OpenRd) + 1

\* A CowCell between operations, after one commit: two read transactions
\* are open on generation 1, one on generation 2, and a write transaction
\* is open.
CowAccountingWitness ==
    /\ cell = "CowCell" /\ Quiescent /\ ~cellDropped /\ active.data = 2
    /\ Readers(1) = 2 /\ Readers(2) = 1
    /\ strong[1] = 2 /\ strong[2] = 2
    /\ \E t \in BagToSet(wr) : t.pc = "open"

====
